---- MODULE Spec2Model ----
(***************************************************************************)
(* GenericPDFFormExtractor (src/input.py): inference of form fields from   *)
(* the text lines and tables of a PDF.                                     *)
(*                                                                         *)
(* A Python str is modelled as a sequence of characters; a character is a  *)
(* one-element TLA+ string for ASCII and the string "U+XXXX" for a         *)
(* non-ASCII code point.  An Optional value is <<>> (None / key absent) or *)
(* <<v>> (present).                                                         *)
(***************************************************************************)
EXTENDS Integers, Sequences, FiniteSets, TLC

(***************************************************************************)
(* Bounds of the model.                                                    *)
(***************************************************************************)
\* pages of one document
MaxPages == 2
\* text lines plus table rows of one document
MaxScan == 3
\* length of the strings given to clean_field_name on its own
MaxLen == 3
\* length of the field lists given to deduplicate_fields on its own
MaxFields == 3

(***************************************************************************)
(* Characters.  The universe is ASCII letters, digits, the punctuation the *)
(* patterns name, the Latin-1 letters of the keyword lists in both cases,  *)
(* U+25A1 (the box glyph), U+0130 (capital I with dot above, whose lower   *)
(* case is two code points) and U+0307 (combining dot above).              *)
(***************************************************************************)
LowerAscii == <<"a","b","c","d","e","f","g","h","i","j","k","l","m",
                "n","o","p","q","r","s","t","u","v","w","x","y","z">>
UpperAscii == <<"A","B","C","D","E","F","G","H","I","J","K","L","M",
                "N","O","P","Q","R","S","T","U","V","W","X","Y","Z">>
Digits == {"0","1","2","3","4","5","6","7","8","9"}
\* the letters of U+00C0..U+00FF used by the keyword lists, lower and upper case
LowerLatin1 == <<"U+00E9", "U+00ED", "U+00F1", "U+00F3", "U+00FA">>
UpperLatin1 == <<"U+00C9", "U+00CD", "U+00D1", "U+00D3", "U+00DA">>
BOX == "U+25A1"
CapitalIDot == "U+0130"
CombiningDot == "U+0307"

Range(s) == {s[i] : i \in 1..Len(s)}
Min(S) == CHOOSE x \in S : \A y \in S : x <= y
Max(S) == CHOOSE x \in S : \A y \in S : x >= y

LowerLetters == Range(LowerAscii) \cup Range(LowerLatin1)
UpperLetters == Range(UpperAscii) \cup Range(UpperLatin1) \cup {CapitalIDot}
Spaces == {" ", "\t", "\n", "\r"}
WordChars == LowerLetters \cup UpperLetters \cup Digits \cup {"_"}
Latin1Letters == Range(LowerLatin1) \cup Range(UpperLatin1)

\* str.islower() / str.isupper() of one cased character
IsLowerChar(c) == c \in LowerLetters
IsUpperChar(c) == c \in UpperLetters
\* \s of re (str patterns), and the characters str.strip() removes
IsSpace(c) == c \in Spaces
\* \w of re (str patterns): alphanumeric or underscore
IsWord(c) == c \in WordChars
\* the range À-ÿ
InLatin1(c) == c \in Latin1Letters

\* str.lower() of the upper-case characters: a sequence each, since U+0130
\* lowers to two code points
LowerOfUpper ==
    ("A" :> <<"a">>) @@ ("B" :> <<"b">>) @@ ("C" :> <<"c">>) @@ ("D" :> <<"d">>)
    @@ ("E" :> <<"e">>) @@ ("F" :> <<"f">>) @@ ("G" :> <<"g">>) @@ ("H" :> <<"h">>)
    @@ ("I" :> <<"i">>) @@ ("J" :> <<"j">>) @@ ("K" :> <<"k">>) @@ ("L" :> <<"l">>)
    @@ ("M" :> <<"m">>) @@ ("N" :> <<"n">>) @@ ("O" :> <<"o">>) @@ ("P" :> <<"p">>)
    @@ ("Q" :> <<"q">>) @@ ("R" :> <<"r">>) @@ ("S" :> <<"s">>) @@ ("T" :> <<"t">>)
    @@ ("U" :> <<"u">>) @@ ("V" :> <<"v">>) @@ ("W" :> <<"w">>) @@ ("X" :> <<"x">>)
    @@ ("Y" :> <<"y">>) @@ ("Z" :> <<"z">>) @@ ("U+00C9" :> <<"U+00E9">>) @@ ("U+00CD" :> <<"U+00ED">>)
    @@ ("U+00D1" :> <<"U+00F1">>) @@ ("U+00D3" :> <<"U+00F3">>) @@ ("U+00DA" :> <<"U+00FA">>) @@ (CapitalIDot :> <<"i", CombiningDot>>)

\* str.lower() of one character
LowerChar(c) == IF c \in UpperLetters THEN LowerOfUpper[c] ELSE <<c>>

(***************************************************************************)
(* Strings.                                                                *)
(***************************************************************************)
\* s[a..b-1] in Python's half-open slices, with 1-based a
Slice(s, a, b) == SubSeq(s, a, b - 1)

\* the first index j >= i where P fails, Len(s)+1 when there is none:
\* the end of a greedy run of a character class
RunEnd(P(_), s, i) ==
    LET end[j \in i..(Len(s) + 1)] ==
            IF j > Len(s) \/ ~P(s[j]) THEN j ELSE end[j + 1]
    IN  IF i > Len(s) THEN Len(s) + 1 ELSE end[i]

\* the last index j <= i where P fails, 0 when there is none
RunStart(P(_), s, i) ==
    LET start[j \in 0..i] ==
            IF j = 0 \/ ~P(s[j]) THEN j ELSE start[j - 1]
    IN  start[i]

RECURSIVE Lower(_)
Lower(s) == IF s = <<>> THEN <<>> ELSE LowerChar(Head(s)) \o Lower(Tail(s))

\* str.strip()
Strip(s) == Slice(s, RunEnd(IsSpace, s, 1), RunStart(IsSpace, s, Len(s)) + 1)

\* str.strip('_')
IsUnderscore(c) == c = "_"
StripUnderscores(s) ==
    Slice(s, RunEnd(IsUnderscore, s, 1), RunStart(IsUnderscore, s, Len(s)) + 1)

\* lit occurs in s at index i
MatchesAt(s, i, lit) ==
    /\ i + Len(lit) - 1 <= Len(s)
    /\ \A k \in 1..Len(lit) : s[i + k - 1] = lit[k]

\* `lit in s`
Contains(s, lit) == \E i \in 1..(Len(s) + 1) : MatchesAt(s, i, lit)

(***************************************************************************)
(* clean_field_name                                                        *)
(***************************************************************************)
\* re.sub(r'[^\w\sÀ-ÿ]', ' ', text)
RemoveSpecial(s) ==
    [i \in 1..Len(s) |->
        IF IsWord(s[i]) \/ IsSpace(s[i]) \/ InLatin1(s[i]) THEN s[i] ELSE " "]

\* re.sub(r'\s+', '_', text)
RECURSIVE SpacesToUnderscore(_)
SpacesToUnderscore(s) ==
    IF s = <<>> THEN <<>>
    ELSE IF IsSpace(Head(s))
         THEN <<"_">> \o SpacesToUnderscore(Slice(s, RunEnd(IsSpace, s, 1), Len(s) + 1))
         ELSE <<Head(s)>> \o SpacesToUnderscore(Tail(s))

clean_field_name(text) ==
    StripUnderscores(SpacesToUnderscore(Strip(Lower(RemoveSpecial(text)))))

(***************************************************************************)
(* Fields.  value is a str, the bool False or None.                        *)
(***************************************************************************)
StrValue(v) == [kind |-> "str", str |-> v]
FalseValue == [kind |-> "bool", str |-> <<>>]
NoneValue == [kind |-> "none", str |-> <<>>]
\* a dict without the key "section"
NoSection == <<>>
Field(l, t, v) == [label |-> l, type |-> t, value |-> v, section |-> NoSection]

(***************************************************************************)
(* determine_field_type                                                    *)
(***************************************************************************)
DateWords ==
    <<<<"f","e","c","h","a">>,
      <<"d","a","t","e">>,
      <<"d","U+00ED","a">>,
      <<"m","e","s">>,
      <<"a","U+00F1","o">>,
      <<"n","a","c","i","m","i","e","n","t","o">>>>
NumberWords ==
    <<<<"c","a","n","t","i","d","a","d">>,
      <<"n","U+00FA","m","e","r","o">>,
      <<"m","o","n","t","o">>,
      <<"t","o","t","a","l">>,
      <<"e","d","a","d">>,
      <<"p","e","s","o">>,
      <<"t","a","l","l","a">>,
      <<"t","e","l","U+00E9","f","o","n","o">>,
      <<"t","e","l","e","f","o","n","o">>,
      <<"m","U+00F3","v","i","l">>,
      <<"m","o","v","i","l">>,
      <<"f","u","m","a">>,
      <<"c","o","n","s","u","m","e">>>>
CheckboxWords ==
    <<<<"s","U+00ED","/","n","o">>,
      <<"s","i","/","n","o">>,
      <<"y","e","s","/","n","o">>,
      <<"a","c","e","p","t","a">>>>

\* any(word in label_lower for word in words)
AnyWordIn(words, s) == \E k \in 1..Len(words) : Contains(s, words[k])

determine_field_type(label) ==
    LET label_lower == Lower(label)
    IN  IF AnyWordIn(DateWords, label_lower) THEN "date"
        ELSE IF AnyWordIn(NumberWords, label_lower) THEN "number"
        ELSE IF AnyWordIn(CheckboxWords, label_lower) THEN "checkbox"
        ELSE "text"

(***************************************************************************)
(* Regular expressions.  A match is [end, groups]: end is the index after  *)
(* the match, groups the captured strings; NoMatch has end = 0.  Every     *)
(* pattern below consumes at least one character.                          *)
(***************************************************************************)
NoMatch == [end |-> 0, groups |-> <<>>]

NotNL(c) == c # "\n"
\* [^\n□\[\]\(\)]
InCheckboxLabel(c) == c \notin {"\n", BOX, "[", "]", "(", ")"}
\* [^:\n]
NotColonNL(c) == c \notin {":", "\n"}
\* [^_\n]
NotUnderscoreNL(c) == c \notin {"_", "\n"}
\* [^)]
NotRParen(c) == c # ")"
\* [^[\n]
NotLBracketNL(c) == c \notin {"[", "\n"}

\* (?:□|\[ \]|\(\s*\)) at i: the index after the glyph, 0 when none
GlyphEnd(s, i) ==
    IF s[i] = BOX THEN i + 1
    ELSE IF MatchesAt(s, i, <<"[", " ", "]">>) THEN i + 3
    ELSE IF s[i] = "("
         THEN LET j == RunEnd(IsSpace, s, i + 1)
              IN  IF j <= Len(s) /\ s[j] = ")" THEN j + 1 ELSE 0
         ELSE 0

\* (?:□|\[ \]|\(\s*\))\s*([^\n□\[\]\(\)]+) at i.  \s* is greedy and gives
\* characters back until the label class matches at least one character.
CheckboxMatchAt(s, i) ==
    LET g == GlyphEnd(s, i)
        w == RunEnd(IsSpace, s, g)
        starts == {k \in g..w : RunEnd(InCheckboxLabel, s, k) > k}
        k == Max(starts)
        e == RunEnd(InCheckboxLabel, s, k)
    IN  IF g = 0 \/ starts = {} THEN NoMatch
        ELSE [end |-> e, groups |-> <<Slice(s, k, e)>>]

\* ([^:\n]+):\s*([^\n]*) at i
ColonMatchAt(s, i) ==
    LET e == RunEnd(NotColonNL, s, i)
        w == RunEnd(IsSpace, s, e + 1)
        v == RunEnd(NotNL, s, w)
    IN  IF e > i /\ e <= Len(s) /\ s[e] = ":"
        THEN [end |-> v, groups |-> <<Slice(s, i, e), Slice(s, w, v)>>]
        ELSE NoMatch

\* ([^_\n]+)_{3,} at i
UnderscoreMatchAt(s, i) ==
    LET e == RunEnd(NotUnderscoreNL, s, i)
        u == RunEnd(IsUnderscore, s, e)
    IN  IF e > i /\ u - e >= 3
        THEN [end |-> u, groups |-> <<Slice(s, i, e)>>]
        ELSE NoMatch

\* \(([^)]+)\) at i
ParenMatchAt(s, i) ==
    LET e == RunEnd(NotRParen, s, i + 1)
    IN  IF s[i] = "(" /\ e > i + 1 /\ e <= Len(s)
        THEN [end |-> e + 1, groups |-> <<Slice(s, i + 1, e)>>]
        ELSE NoMatch

\* ([^[\n]+)\[\s*\] at i
BracketMatchAt(s, i) ==
    LET e == RunEnd(NotLBracketNL, s, i)
        w == RunEnd(IsSpace, s, e + 1)
    IN  IF e > i /\ e <= Len(s) /\ s[e] = "[" /\ w <= Len(s) /\ s[w] = "]"
        THEN [end |-> w + 1, groups |-> <<Slice(s, i, e)>>]
        ELSE NoMatch

Indicators ==
    <<<<"N","o","m","b","r","e">>,
      <<"A","p","e","l","l","i","d","o">>,
      <<"D","i","r","e","c","c","i","U+00F3","n">>,
      <<"T","e","l","U+00E9","f","o","n","o">>,
      <<"E","m","a","i","l">>,
      <<"C","o","r","r","e","o">>>>

\* (?:Nombre|Apellido|Dirección|Teléfono|Email|Correo)(?:\s*:)?\s*([^\n]*) at i
IndicatorMatchAt(s, i) ==
    LET hits == {k \in 1..Len(Indicators) : MatchesAt(s, i, Indicators[k])}
        a == i + Len(Indicators[Min(hits)])
        c == RunEnd(IsSpace, s, a)
        b == IF c <= Len(s) /\ s[c] = ":" THEN c + 1 ELSE a
        w == RunEnd(IsSpace, s, b)
        v == RunEnd(NotNL, s, w)
    IN  IF hits = {} THEN NoMatch
        ELSE [end |-> v, groups |-> <<Slice(s, w, v)>>]

\* the patterns of detect_text_fields, in the order of the list
NumPatterns == 5
TextMatchAt(p, s, i) ==
    CASE p = 1 -> ColonMatchAt(s, i)
      [] p = 2 -> UnderscoreMatchAt(s, i)
      [] p = 3 -> ParenMatchAt(s, i)
      [] p = 4 -> BracketMatchAt(s, i)
      [] p = 5 -> IndicatorMatchAt(s, i)

\* pattern 0 is the checkbox pattern
MatchAt(p, s, i) == IF p = 0 THEN CheckboxMatchAt(s, i) ELSE TextMatchAt(p, s, i)

\* re.finditer(pattern, text): the leftmost match at or after pos, then on
\* from its end
RECURSIVE FindIter(_, _, _)
FindIter(p, s, pos) ==
    IF pos > Len(s) THEN <<>>
    ELSE LET m == MatchAt(p, s, pos)
         IN  IF m.end # 0 THEN <<m>> \o FindIter(p, s, m.end)
             ELSE FindIter(p, s, pos + 1)

(***************************************************************************)
(* detect_checkbox_groups                                                  *)
(***************************************************************************)
RECURSIVE CheckboxFieldsOf(_)
CheckboxFieldsOf(matches) ==
    IF matches = <<>> THEN <<>>
    ELSE LET label == Strip(Head(matches).groups[1])
         IN  (IF label # <<>>
              THEN <<Field(clean_field_name(label), "checkbox", FalseValue)>>
              ELSE <<>>) \o CheckboxFieldsOf(Tail(matches))

detect_checkbox_groups(text) == CheckboxFieldsOf(FindIter(0, text, 1))

(***************************************************************************)
(* detect_text_fields                                                      *)
(***************************************************************************)
\* any(c in label for c in '□[]()')
HasGlyphChar(label) == \E i \in 1..Len(label) : label[i] \in {BOX, "[", "]", "(", ")"}

\* value if field_type == "text" else None
TextFieldValue(field_type, value) ==
    IF field_type = "text" THEN StrValue(value) ELSE NoneValue

RECURSIVE TextFieldsOf(_)
TextFieldsOf(matches) ==
    IF matches = <<>> THEN <<>>
    ELSE LET m == Head(matches)
             label == Strip(m.groups[1])
             field_type == determine_field_type(label)
             value == IF Len(m.groups) > 1 THEN Strip(m.groups[2]) ELSE <<>>
         IN  (IF label # <<>> /\ ~HasGlyphChar(label)
              THEN <<Field(clean_field_name(label), field_type,
                           TextFieldValue(field_type, value))>>
              ELSE <<>>) \o TextFieldsOf(Tail(matches))

RECURSIVE TextFieldsFrom(_, _)
TextFieldsFrom(p, text) ==
    IF p > NumPatterns THEN <<>>
    ELSE TextFieldsOf(FindIter(p, text, 1)) \o TextFieldsFrom(p + 1, text)

detect_text_fields(text) == TextFieldsFrom(1, text)

(***************************************************************************)
(* deduplicate_fields                                                      *)
(***************************************************************************)
\* the characters of a type name, as an f-string formats it
TypeChars(type) ==
    CASE type = "text" -> <<"t","e","x","t">>
      [] type = "number" -> <<"n","u","m","b","e","r">>
      [] type = "date" -> <<"d","a","t","e">>
      [] type = "checkbox" -> <<"c","h","e","c","k","b","o","x">>
      [] type = "section" -> <<"s","e","c","t","i","o","n">>

\* f"{field['label']}_{field['type']}", then f"_{field['section']}" when the key is there
FieldKey(field) ==
    field.label \o <<"_">> \o TypeChars(field.type)
        \o (IF field.section # NoSection THEN <<"_">> \o field.section[1] ELSE <<>>)

\* the label is looked up in seen, not the key
KeepsFieldByLabel(seen, field) == field.label \notin seen

\* one turn of the loop: the field is kept when its key is new
KeepsField(seen, field) == FieldKey(field) \notin seen

RECURSIVE UniqueFrom(_, _)
UniqueFrom(fields, seen) ==
    IF fields = <<>> THEN <<>>
    ELSE LET field == Head(fields)
         IN  IF KeepsField(seen, field)
             THEN <<field>> \o UniqueFrom(Tail(fields), seen \cup {FieldKey(field)})
             ELSE UniqueFrom(Tail(fields), seen)

deduplicate_fields(fields) == UniqueFrom(fields, {})

(***************************************************************************)
(* The pieces of extract_form_fields.                                      *)
(***************************************************************************)
None == <<>>
Some(v) == <<v>>

\* text.split('\n')
RECURSIVE SplitLines(_)
SplitLines(text) ==
    LET e == RunEnd(NotNL, text, 1)
    IN  IF e > Len(text) THEN <<text>>
        ELSE <<Slice(text, 1, e)>> \o SplitLines(Slice(text, e + 1, Len(text) + 1))

\* '\n'.join(lines)
RECURSIVE JoinLines(_)
JoinLines(ls) ==
    IF ls = <<>> THEN <<>>
    ELSE IF Len(ls) = 1 THEN ls[1]
    ELSE ls[1] \o <<"\n">> \o JoinLines(Tail(ls))

\* str.isupper(): a cased character, and no lower-case one
IsUpper(s) ==
    /\ \E i \in 1..Len(s) : IsUpperChar(s[i])
    /\ \A i \in 1..Len(s) : ~IsLowerChar(s[i])

MinHeadingLen == 3
\* line.isupper() or (len(line) > 3 and line.endswith(':'))
IsSectionHeader(line) ==
    IsUpper(line) \/ (Len(line) > MinHeadingLen /\ line[Len(line)] = ":")

\* re.search(r'(?:form|formato|formulario)', line.lower())
FormWords ==
    <<<<"f","o","r","m">>,
      <<"f","o","r","m","a","t","o">>,
      <<"f","o","r","m","u","l","a","r","i","o">>>>
IsFormTitle(line) == AnyWordIn(FormWords, Lower(line))

FormNameLines == 3
\* the form name the first page gives: the first of its first three lines
\* that holds a form word, stripped; the old name when none does
FormNameOf(text, old) ==
    LET all == SplitLines(text)
        first_lines == SubSeq(all, 1, IF Len(all) < FormNameLines THEN Len(all) ELSE FormNameLines)
        hits == {i \in 1..Len(first_lines) : IsFormTitle(first_lines[i])}
    IN  IF hits = {} THEN old ELSE Strip(first_lines[Min(hits)])

\* if current_section: field["section"] = current_section
Truthy(current_section) == current_section # None /\ current_section[1] # <<>>
AttachSection(field, current_section) ==
    IF Truthy(current_section) THEN [field EXCEPT !.section = current_section] ELSE field
AttachAll(fs, current_section) ==
    [i \in 1..Len(fs) |-> AttachSection(fs[i], current_section)]

\* the fields one line or one row text gives, checkboxes first
FieldsOfText(text, current_section) ==
    AttachAll(detect_checkbox_groups(text), current_section)
        \o AttachAll(detect_text_fields(text), current_section)

\* the field a heading line appends
SectionField(label) ==
    [label |-> label, type |-> "section", value |-> StrValue(<<>>), section |-> NoSection]

\* a cell is None or a str; `if cell`
CellTruthy(cell) == cell # None /\ cell[1] # <<>>
\* not row or not any(row)
RowSkipped(row) == \A i \in 1..Len(row) : ~CellTruthy(row[i])

\* ' '.join(str(cell) for cell in row if cell)
RECURSIVE JoinCells(_)
JoinCells(row) ==
    IF row = <<>> THEN <<>>
    ELSE IF ~CellTruthy(Head(row)) THEN JoinCells(Tail(row))
    ELSE LET rest == JoinCells(Tail(row))
             more == \E i \in 2..Len(row) : CellTruthy(row[i])
         IN  Head(row)[1] \o (IF more THEN <<" ">> ELSE <<>>) \o rest

(***************************************************************************)
(* Inputs.  A page text is one of the two texts of the specification's     *)
(* scenarios, or lines of LinePool joined by line breaks:                  *)
(*    1  'DATOS GENERALES'                                                 *)
(*    2  'Edad: 30'                                                        *)
(*    3  '---:'                                                            *)
(*    4  'Cantidad [ ] formato'                                            *)
(***************************************************************************)
SectionScenario ==
    <<"D","A","T","O","S"," ","G","E","N","E","R","A","L","E","S","\n","N","o","m","b","r","e",":"," ","\n","E","d","a","d",":"," ","3","0">>
EndToEndScenario ==
    <<"N","o","m","b","r","e",":"," ","J","u","a","n","\n","F","e","c","h","a"," ","d","e"," ","n","a","c","i","m","i","e","n","t","o",":"," ","\n","["," ","]"," ","A","c","e","p","t","a"," ","t","e","r","m","i","n","o","s">>
ScenarioTexts == {SectionScenario, EndToEndScenario}

LinePool ==
    <<<<"D","A","T","O","S"," ","G","E","N","E","R","A","L","E","S">>,
      <<"E","d","a","d",":"," ","3","0">>,
      <<"-","-","-",":">>,
      <<"C","a","n","t","i","d","a","d"," ","["," ","]"," ","f","o","r","m","a","t","o">>>>

\* a row is a list of cells, a cell None or a str
RowPool ==
    <<<<Some(<<"E","d","a","d",":">>), Some(<<"V","a","l","o","r">>)>>,
      <<None, Some(<<>>)>>>>

\* the number of lines text.split('\n') gives
LineCount(text) == 1 + Len(SelectSeq(text, LAMBDA c : c = "\n"))

\* what page.extract_text() returns, by its number of lines: None, lines of
\* the pool joined, or a scenario text
TextsOfSize(k) ==
    IF k = 0 THEN {None}
    ELSE {Some(JoinLines(ls)) : ls \in [1..k -> Range(LinePool)]}
         \cup {Some(text) : text \in {sc \in ScenarioTexts : LineCount(sc) = k}}

\* a table is a list of rows; its size is the number of its rows, and 1
\* for an empty list
TablesOfSize(k) == (IF k = 1 THEN {<<>>} ELSE {}) \cup [1..k -> Range(RowPool)]

\* the lists of tables of total size n at most
RECURSIVE TableLists(_)
TableLists(n) ==
    {<<>>} \cup UNION {{<<table>> \o rest : table \in TablesOfSize(k), rest \in TableLists(n - k)} :
                        k \in 1..n}

\* the size of a page: its lines and the sizes of its tables
RECURSIVE TotalSize(_)
TotalSize(tbls) ==
    IF tbls = <<>> THEN 0
    ELSE (IF Head(tbls) = <<>> THEN 1 ELSE Len(Head(tbls))) + TotalSize(Tail(tbls))
PageSize(page) ==
    (IF page.text = None THEN 0 ELSE LineCount(page.text[1])) + TotalSize(page.tables)

\* the pages of size n at most
PageInputs(n) ==
    UNION {{[text |-> text, tables |-> tbls] :
                text \in TextsOfSize(k), tbls \in TableLists(n - k)} :
            k \in 0..n}

(***************************************************************************)
(* State.                                                                  *)
(***************************************************************************)
VARIABLES
    pc,               \* where the call stands: idle, page, lines, tables, rows, done, raised
    total_pages,      \* form_structure["metadata"]["total_pages"]
    form_name,        \* form_structure["metadata"]["form_name"]
    fields,           \* form_structure["fields"]
    current_section,  \* None or the sanitized label of the last heading
    page_num,         \* the page being processed, 0 before the first
    lines,            \* the lines of the page still to scan
    tables,           \* the tables of the page still to process
    rows,             \* the rows of the table still to process
    result,           \* None, or the field list the call returned
    doc,              \* history: the pages read in this call, as [text, tables]
    log,              \* history: one entry for each field appended to fields
    last_heading,     \* history: None or the last heading line scanned in this call
    heading_on_page,  \* history: a heading line was scanned on this page
    first_row,        \* history: the next row is the first of its table
    arg,              \* the argument of a function called on its own
    ret,              \* None, or what the last call of the function returned
    first_ret,        \* None, or what its first call returned, once called again
    again             \* the function was called again on what it returned

code_vars == <<pc, total_pages, form_name, fields, current_section, page_num,
               lines, tables, rows, result>>
hist_vars == <<doc, log, last_heading, heading_on_page, first_row>>
fn_vars == <<arg, ret, first_ret, again>>
vars == <<code_vars, hist_vars, fn_vars>>

\* the size of the pages read so far in this call
RECURSIVE Scanned(_)
Scanned(d) == IF d = <<>> THEN 0 ELSE PageSize(Head(d)) + Scanned(Tail(d))

\* one history entry for each field of fs
LogOf(fs, src, text, row) ==
    [i \in 1..Len(fs) |->
        [field |-> fs[i], src |-> src, text |-> text, row |-> row,
         first_row |-> first_row, page |-> page_num,
         heading |-> last_heading, heading_on_page |-> heading_on_page]]

\* where the page loop goes after the lines, or after a table
AfterLines(tbls) == IF tbls = <<>> THEN "page" ELSE "tables"

Init ==
    /\ pc = "idle"
    /\ total_pages = 0
    /\ form_name = <<>>
    /\ fields = <<>>
    /\ current_section = None
    /\ page_num = 0
    /\ lines = <<>>
    /\ tables = <<>>
    /\ rows = <<>>
    /\ result = None
    /\ doc = <<>>
    /\ log = <<>>
    /\ last_heading = None
    /\ heading_on_page = FALSE
    /\ first_row = FALSE
    /\ arg = <<>>
    /\ ret = None
    /\ first_ret = None
    /\ again = FALSE

(***************************************************************************)
(* extract_form_fields, one action for each step of its loops.             *)
(***************************************************************************)
\* the section a call starts with
InitialSection(previous) == None

\* pdfplumber.open succeeds: the structure is built, the pages are counted
Open ==
    /\ pc \in {"idle", "done", "raised"}
    /\ \E n \in 0..MaxPages : total_pages' = n
    /\ form_name' = <<>>
    /\ fields' = <<>>
    /\ current_section' = InitialSection(current_section)
    /\ page_num' = 0
    /\ lines' = <<>>
    /\ tables' = <<>>
    /\ rows' = <<>>
    /\ result' = None
    /\ pc' = "page"
    /\ doc' = <<>>
    /\ log' = <<>>
    /\ last_heading' = None
    /\ heading_on_page' = FALSE
    /\ first_row' = FALSE
    /\ UNCHANGED fn_vars

\* pdfplumber.open raises: the error is logged and raised again, and the
\* structure built before the try is dropped
OpenRaises ==
    /\ pc \in {"idle", "done"}
    /\ pc' = "raised"
    /\ total_pages' = 0
    /\ form_name' = <<>>
    /\ fields' = <<>>
    /\ current_section' = None
    /\ page_num' = 0
    /\ lines' = <<>>
    /\ tables' = <<>>
    /\ rows' = <<>>
    /\ result' = None
    /\ doc' = <<>>
    /\ log' = <<>>
    /\ last_heading' = None
    /\ heading_on_page' = FALSE
    /\ first_row' = FALSE
    /\ UNCHANGED fn_vars

\* the section is reset at each page
SectionResetAtPage(section) == None

\* the section a page starts with
SectionAtPage(section) == section

\* the next page: its text and tables are read, the form name is looked for
\* on page 1
BeginPage ==
    /\ pc = "page"
    /\ page_num < total_pages
    /\ \E page \in PageInputs(MaxScan - Scanned(doc)) :
        LET text == IF page.text = None THEN <<>> ELSE page.text[1]
        IN  /\ form_name' = IF page_num + 1 = 1 THEN FormNameOf(text, form_name) ELSE form_name
            /\ lines' = SplitLines(text)
            /\ tables' = page.tables
            /\ doc' = Append(doc, page)
    /\ page_num' = page_num + 1
    /\ current_section' = SectionAtPage(current_section)
    /\ rows' = <<>>
    /\ pc' = "lines"
    /\ heading_on_page' = FALSE
    /\ first_row' = FALSE
    /\ UNCHANGED <<total_pages, fields, result, log, last_heading>>
    /\ UNCHANGED fn_vars

\* a line that is empty once stripped
SkipBlankLine ==
    /\ pc = "lines"
    /\ Strip(Head(lines)) = <<>>
    /\ lines' = Tail(lines)
    /\ pc' = IF Tail(lines) = <<>> THEN AfterLines(tables) ELSE "lines"
    /\ UNCHANGED <<total_pages, form_name, fields, current_section, page_num,
                   tables, rows, result>>
    /\ UNCHANGED hist_vars
    /\ UNCHANGED fn_vars

\* a section header: it becomes the current section and a field of its own
ScanHeading ==
    /\ pc = "lines"
    /\ LET line == Strip(Head(lines))
           label == clean_field_name(line)
       IN  /\ line # <<>>
           /\ IsSectionHeader(line)
           /\ current_section' = Some(label)
           /\ fields' = Append(fields, SectionField(label))
           /\ log' = log \o LogOf(<<SectionField(label)>>, "heading", line, <<>>)
           /\ last_heading' = Some(line)
    /\ heading_on_page' = TRUE
    /\ lines' = Tail(lines)
    /\ pc' = IF Tail(lines) = <<>> THEN AfterLines(tables) ELSE "lines"
    /\ UNCHANGED <<total_pages, form_name, page_num, tables, rows, result>>
    /\ UNCHANGED <<doc, first_row>>
    /\ UNCHANGED fn_vars

\* any other line: its checkbox fields, then its text fields
ScanLine ==
    /\ pc = "lines"
    /\ LET line == Strip(Head(lines))
           found == FieldsOfText(line, current_section)
       IN  /\ line # <<>>
           /\ ~IsSectionHeader(line)
           /\ fields' = fields \o found
           /\ log' = log \o LogOf(found, "line", line, <<>>)
    /\ lines' = Tail(lines)
    /\ pc' = IF Tail(lines) = <<>> THEN AfterLines(tables) ELSE "lines"
    /\ UNCHANGED <<total_pages, form_name, current_section, page_num, tables,
                   rows, result>>
    /\ UNCHANGED <<doc, last_heading, heading_on_page, first_row>>
    /\ UNCHANGED fn_vars

\* the next table: an empty one is passed over
NextTable ==
    /\ pc = "tables"
    /\ LET table == Head(tables)
       IN  /\ rows' = table
           /\ pc' = IF table = <<>> THEN AfterLines(Tail(tables)) ELSE "rows"
           /\ first_row' = (table # <<>>)
    /\ tables' = Tail(tables)
    /\ UNCHANGED <<total_pages, form_name, fields, current_section, page_num,
                   lines, result>>
    /\ UNCHANGED <<doc, log, last_heading, heading_on_page>>
    /\ UNCHANGED fn_vars

\* one row of a table: passed over when no cell holds text, else scanned as
\* a line is
ScanRow ==
    /\ pc = "rows"
    /\ LET row == Head(rows)
           row_text == JoinCells(row)
           found == IF RowSkipped(row) THEN <<>>
                    ELSE FieldsOfText(row_text, current_section)
       IN  /\ fields' = fields \o found
           /\ log' = log \o LogOf(found, "row", row_text, row)
    /\ rows' = Tail(rows)
    /\ pc' = IF Tail(rows) = <<>> THEN AfterLines(tables) ELSE "rows"
    /\ first_row' = FALSE
    /\ UNCHANGED <<total_pages, form_name, current_section, page_num, lines,
                   tables, result>>
    /\ UNCHANGED <<doc, last_heading, heading_on_page>>
    /\ UNCHANGED fn_vars

\* after the last page: the fields are deduplicated and the structure returned
Finish ==
    /\ pc = "page"
    /\ page_num = total_pages
    /\ fields' = deduplicate_fields(fields)
    /\ result' = Some(deduplicate_fields(fields))
    /\ pc' = "done"
    /\ UNCHANGED <<total_pages, form_name, current_section, page_num, lines,
                   tables, rows>>
    /\ UNCHANGED hist_vars
    /\ UNCHANGED fn_vars

Next ==
    \/ Open
    \/ OpenRaises
    \/ BeginPage
    \/ SkipBlankLine
    \/ ScanHeading
    \/ ScanLine
    \/ NextTable
    \/ ScanRow
    \/ Finish

Spec == Init /\ [][Next]_vars

(***************************************************************************)
(* clean_field_name called on its own, then on what it returned.           *)
(***************************************************************************)
CleanAlphabet == {"a", "B", "_", " ", "-", CapitalIDot, CombiningDot}

Idle ==
    /\ pc = "idle"
    /\ total_pages = 0
    /\ form_name = <<>>
    /\ fields = <<>>
    /\ current_section = None
    /\ page_num = 0
    /\ lines = <<>>
    /\ tables = <<>>
    /\ rows = <<>>
    /\ result = None
    /\ doc = <<>>
    /\ log = <<>>
    /\ last_heading = None
    /\ heading_on_page = FALSE
    /\ first_row = FALSE

InitClean ==
    /\ Idle
    /\ arg \in UNION {[1..k -> CleanAlphabet] : k \in 0..MaxLen}
    /\ ret = None
    /\ first_ret = None
    /\ again = FALSE

CallClean ==
    /\ ret = None
    /\ ret' = Some(clean_field_name(arg))
    /\ UNCHANGED <<arg, first_ret, again>>
    /\ UNCHANGED <<code_vars, hist_vars>>

CallCleanAgain ==
    /\ ret # None
    /\ ~again
    /\ first_ret' = ret
    /\ ret' = Some(clean_field_name(ret[1]))
    /\ UNCHANGED arg
    /\ again' = TRUE
    /\ UNCHANGED <<code_vars, hist_vars>>

NextClean ==
    \/ CallClean
    \/ CallCleanAgain

SpecClean == InitClean /\ [][NextClean]_vars

(***************************************************************************)
(* deduplicate_fields called on its own, then on what it returned.         *)
(***************************************************************************)
DedupLabels == {<<"x">>, <<"x","_","t","e","x","t">>}
DedupSections == {NoSection, Some(<<"t","e","x","t">>)}
DedupPool ==
    {[label |-> l, type |-> ty, value |-> v, section |-> sec] :
        l \in DedupLabels, ty \in {"text", "number"},
        v \in {StrValue(<<>>), NoneValue}, sec \in DedupSections}

\* a line two patterns of detect_text_fields match with the same label
OverlapLine == <<"N","o","m","b","r","e",":"," ","_","_","_">>

InitDedup ==
    /\ Idle
    /\ arg \in UNION {[1..k -> DedupPool] : k \in 0..MaxFields}
                \cup {FieldsOfText(OverlapLine, None)}
    /\ ret = None
    /\ first_ret = None
    /\ again = FALSE

CallDedup ==
    /\ ret = None
    /\ ret' = Some(deduplicate_fields(arg))
    /\ UNCHANGED <<arg, first_ret, again>>
    /\ UNCHANGED <<code_vars, hist_vars>>

CallDedupAgain ==
    /\ ret # None
    /\ ~again
    /\ first_ret' = ret
    /\ ret' = Some(deduplicate_fields(ret[1]))
    /\ UNCHANGED arg
    /\ again' = TRUE
    /\ UNCHANGED <<code_vars, hist_vars>>

NextDedup ==
    \/ CallDedup
    \/ CallDedupAgain

SpecDedup == InitDedup /\ [][NextDedup]_vars

(***************************************************************************)
(* Properties.                                                             *)
(***************************************************************************)
\* the identity of a field: label, type, and section or its absence
Identity(field) == <<field.label, field.type, field.section>>

\* the section a field is to carry after the heading line `heading` (None:
\* no heading yet); a heading whose label sanitizes to the empty string
\* names no section (see C6)
SectionAfter(heading) ==
    IF heading = None \/ clean_field_name(heading[1]) = <<>> THEN NoSection
    ELSE Some(clean_field_name(heading[1]))

LogEntries == {log[i] : i \in 1..Len(log)}
Returned == IF result = None THEN {} ELSE {result[1][i] : i \in 1..Len(result[1])}

\* a document of one page with this text and no tables
OnePage(text) == <<[text |-> Some(text), tables |-> <<>>]>>

\* C1: over the lines "DATOS GENERALES", "Nombre: ", "Edad: 30" the
\* returned fields labelled nombre and edad both carry the section
\* datos_generales; and every field that is not a section carries the
\* sanitized label of the last heading line before it, and no section key
\* before any heading line.
C1_SectionAttachment ==
    /\ (pc = "done" /\ doc = OnePage(SectionScenario))
        => /\ \E f \in Returned : f.label = <<"n","o","m","b","r","e">>
           /\ \E f \in Returned : f.label = <<"e","d","a","d">>
           /\ \A f \in Returned :
                f.label \in {<<"n","o","m","b","r","e">>, <<"e","d","a","d">>}
                    => f.section = Some(<<"d","a","t","o","s","_","g","e","n","e","r","a","l","e","s">>)
    /\ \A e \in LogEntries :
        e.src # "heading" => e.field.section = SectionAfter(e.heading)

\* C2: one page, no tables, the text "Nombre: Juan", "Fecha de nacimiento: ",
\* "[ ] Acepta terminos": exactly the three fields nombre (text, "Juan"),
\* fecha_de_nacimiento (date, "") and acepta_terminos (checkbox, False) are
\* returned, in this order, and total_pages is 1.
C2_EndToEnd ==
    (pc = "done" /\ doc = OnePage(EndToEndScenario))
        => /\ result = Some(<<
                Field(<<"n","o","m","b","r","e">>, "text", StrValue(<<"J","u","a","n">>)),
                Field(<<"f","e","c","h","a","_","d","e","_","n","a","c","i","m","i","e","n","t","o">>, "date", StrValue(<<>>)),
                Field(<<"a","c","e","p","t","a","_","t","e","r","m","i","n","o","s">>, "checkbox", FalseValue)>>)
           /\ total_pages = 1

\* C3: what deduplicate_fields returns holds no two fields of the same
\* identity (label, type, section or its absence), and deduplicate_fields
\* returns its own output unchanged.
C3_DedupUnique ==
    /\ ret # None =>
        \A i, j \in 1..Len(ret[1]) : i # j => Identity(ret[1][i]) # Identity(ret[1][j])
    /\ again => ret = first_ret

\* the fields of a line two patterns matched with the same label were
\* deduplicated, one was dropped, and the output was deduplicated again
C3_Witness ==
    /\ again
    /\ arg = FieldsOfText(OverlapLine, None)
    /\ \E i, j \in 1..Len(arg) : i # j /\ Identity(arg[i]) = Identity(arg[j])
    /\ Len(ret[1]) < Len(arg)
    /\ ret = first_ret

\* the fields of fs that no earlier field of fs shares its identity with
FirstOfIdentity(fs) ==
    SelectSeq([i \in 1..Len(fs) |-> <<i, fs[i]>>],
              LAMBDA q : \A k \in 1..(q[1] - 1) : Identity(fs[k]) # Identity(q[2]))

\* C4: deduplicate_fields drops a field only when an earlier field has the
\* same label, type and section (or absence of one): the fields of distinct
\* identities all survive, in their order.
C4_DropsOnlyDuplicates ==
    (ret # None /\ ~again) =>
        ret[1] = [i \in 1..Len(FirstOfIdentity(arg)) |-> FirstOfIdentity(arg)[i][2]]

\* C5: every returned text, date or number field has a string as value
\* and every checkbox field has False; no value is None.
C5_ValuesMatchTypes ==
    \A f \in Returned :
        /\ f.type \in {"text", "date", "number"} => f.value.kind = "str"
        /\ f.type = "checkbox" => f.value = FalseValue
        /\ f.value.kind # "none"

\* C6: every returned field, of type section or not, has a label that is
\* not the empty string.
C6_LabelsNonEmpty == \A f \in Returned : f.label # <<>>

\* a checkbox glyph occurs in text: "[ ]", "(" whitespace ")" or the box
HasCheckboxGlyph(text) == \E i \in 1..Len(text) : GlyphEnd(text, i) # 0

\* C7: the fields of a line that is no heading and holds a checkbox glyph
\* and a number keyword are all of type checkbox, none of type number.
C7_GlyphBeforeKeyword ==
    \A e \in LogEntries :
        (e.src = "line" /\ HasCheckboxGlyph(e.text)
            /\ AnyWordIn(NumberWords, Lower(e.text)))
            => e.field.type = "checkbox"

\* every cell of the row is a non-empty text
IsHeaderRow(row) == row # <<>> /\ \A i \in 1..Len(row) : CellTruthy(row[i])

\* C8: no field comes from the first row of a table when every cell of
\* that row is a non-empty text.
C8_HeaderRowSkipped ==
    \A e \in LogEntries : ~(e.src = "row" /\ e.first_row /\ IsHeaderRow(e.row))

\* C9: clean_field_name(clean_field_name(x)) = clean_field_name(x).
C9_CleanIdempotent == again => ret = first_ret

====
